---------------------------- MODULE Spec2Model ----------------------------
(***************************************************************************)
(* Model of the map trip planner: the pin collection held by App, the      *)
(* three forms that add pins (map click, manual coordinates, location      *)
(* search), the sidebar edit form, the map popup's delete dialog, and the  *)
(* localStorage mirror of the collection and of the viewport.              *)
(*                                                                         *)
(* Texts are sequences of one-character strings, so that trim and          *)
(* parseFloat are computed on the characters.  Numbers are integers        *)
(* counted in units of 10^-FracDigits degrees; NaN is a value outside the  *)
(* range any text of the model parses to, and every comparison with it is  *)
(* false, as in IEEE arithmetic.                                           *)
(***************************************************************************)
EXTENDS Integers, Sequences, FiniteSets, TLC

VARIABLES
    phase,            \* "boot" (page not yet mounted) or "running"
    storage,          \* localStorage: key -> stored item
    pins,             \* App: pins
    mapCenter,        \* App: mapCenter
    mapZoom,          \* App: mapZoom
    mapView,          \* the view of the Leaflet map MapContainer created: its
                      \* center and zoom (<<>> while there is no map)
    selectedPosition, \* App: selectedPosition (<<>> is null, <<pos>> a position)
    editingPin,       \* PinManager: editingPin (<<>> is null, else <<e>> with the
                      \* id and position of the pin, the fields handlers read)
    pinToDelete,      \* MapComponent: pinToDelete (<<>> is null, else <<id>>, the
                      \* field of the pin handlers read)
    lastWrite,        \* key -> outcome of the last setItem on it
    saved,            \* key -> the value last written to it with success
                      \* (<<>> when there was none, else <<value>>)
    failures,         \* number of setItem calls that threw so far
    crashed,          \* an exception escaped a handler or an effect
    manualPinEntry,   \* ManualPinEntry: isExpanded, latitude, longitude, name,
                      \* description, type, color, link, error
    clipboard,        \* the text on the system clipboard
    locationManager,  \* LocationBasedPinManager: searchQuery, suggestions,
                      \* selectedLocation, isSearching, showSuggestions, name
    searchTimeoutRef, \* LocationBasedPinManager: searchTimeoutRef.current
                      \* (<<>> is null, else <<id>>)
    timers,           \* the timers set and neither fired nor cleared
    requests,         \* the suggestion requests sent and not yet answered,
                      \* in the order they were sent
    burst,            \* ticks since searchQuery last changed, and the requests
                      \* sent since then
    searchComponent,  \* SearchComponent: searchQuery, isLoading, error
    lookup,           \* the request of handleSearch not yet answered (<<>> is
                      \* none, else <<query>>)
    formEv,           \* the event a form handled last
    ev                \* the event handled last and what its handler produced

vars == <<phase, storage, pins, mapCenter, mapZoom, mapView, selectedPosition,
          editingPin, pinToDelete, lastWrite, saved, failures, crashed,
          manualPinEntry, clipboard, locationManager, searchTimeoutRef, timers,
          requests, burst, searchComponent, lookup, formEv, ev>>

\* the state of App, of PinManager's edit form and of the map, with the store
appVars == <<phase, storage, pins, mapCenter, mapZoom, mapView, selectedPosition,
             editingPin, pinToDelete, lastWrite, saved, failures, crashed, ev>>

\* the state of the forms that are shown while no position is selected
\* the state of ManualPinEntry
manualVars == <<manualPinEntry, clipboard>>

\* the state of LocationBasedPinManager, with its timers and requests
suggestVars == <<locationManager, searchTimeoutRef, timers, requests, burst>>

\* the state of SearchComponent, with its request
lookupVars == <<searchComponent, lookup>>

formVars == <<manualVars, suggestVars, lookupVars, formEv>>

-----------------------------------------------------------------------------
(* Bounds *)

MaxPins == 2
MaxClock == 0
MaxWriteFailures == 1
FracDigits == 1
MaxManualPins == 1
MaxInFlight == 2

-----------------------------------------------------------------------------
(* Numbers *)

RECURSIVE Pow10(_)
Pow10(n) == IF n = 0 THEN 1 ELSE 10 * Pow10(n - 1)

Unit == Pow10(FracDigits)

NaN == 0 - 2000000000

isNaN(x) == x = NaN

\* x <= y on JavaScript numbers: false when either is NaN
Leq(x, y) == ~isNaN(x) /\ ~isNaN(y) /\ x <= y

Lt(x, y) == ~isNaN(x) /\ ~isNaN(y) /\ x < y

-----------------------------------------------------------------------------
(* Texts *)

DigitVal == [c \in {"0", "1", "2", "3", "4", "5", "6", "7", "8", "9"} |->
               CASE c = "0" -> 0 [] c = "1" -> 1 [] c = "2" -> 2 [] c = "3" -> 3
                 [] c = "4" -> 4 [] c = "5" -> 5 [] c = "6" -> 6 [] c = "7" -> 7
                 [] c = "8" -> 8 [] c = "9" -> 9]

IsDigit(c) == c \in DOMAIN DigitVal

IsSpace(c) == c = " "

RECURSIVE TrimStart(_)
TrimStart(s) == IF s # <<>> /\ IsSpace(Head(s)) THEN TrimStart(Tail(s)) ELSE s

RECURSIVE TrimEnd(_)
TrimEnd(s) == IF s # <<>> /\ IsSpace(s[Len(s)])
              THEN TrimEnd(SubSeq(s, 1, Len(s) - 1)) ELSE s

\* String.prototype.trim
Trim(s) == TrimEnd(TrimStart(s))

\* the longest prefix of s made of digits
RECURSIVE DigitPrefix(_)
DigitPrefix(s) == IF s # <<>> /\ IsDigit(Head(s))
                  THEN <<Head(s)>> \o DigitPrefix(Tail(s)) ELSE <<>>

RECURSIVE IntValue(_)
IntValue(ds) == IF ds = <<>> THEN 0
                ELSE 10 * IntValue(SubSeq(ds, 1, Len(ds) - 1)) + DigitVal[ds[Len(ds)]]

\* the value of the fraction digits fs, in units (digits past FracDigits are
\* below the precision of the model's numbers)
RECURSIVE FracValue(_, _)
FracValue(fs, k) == IF fs = <<>> \/ k > FracDigits THEN 0
                    ELSE DigitVal[Head(fs)] * Pow10(FracDigits - k) + FracValue(Tail(fs), k + 1)

\* parseFloat: leading white space is skipped, then the longest prefix that is
\* a decimal literal (sign, digits, point, digits) is converted; NaN if there is none
parseFloat(text) ==
    LET s    == TrimStart(text)
        neg  == s # <<>> /\ Head(s) = "-"
        body == IF s # <<>> /\ Head(s) \in {"-", "+"} THEN Tail(s) ELSE s
        ints == DigitPrefix(body)
        rest == SubSeq(body, Len(ints) + 1, Len(body))
        frac == IF rest # <<>> /\ Head(rest) = "." THEN DigitPrefix(Tail(rest)) ELSE <<>>
        mag  == IntValue(ints) * Unit + FracValue(frac, 1)
    IN  IF ints = <<>> /\ frac = <<>> THEN NaN
        ELSE IF neg THEN 0 - mag ELSE mag

-----------------------------------------------------------------------------
(* Pins *)

\* an absent optional field (link?: string)
Undefined == <<"undefined">>

Null == <<>>

Pin(id, type, name, description, color, position, link) ==
    [id |-> id, type |-> type, name |-> name, description |-> description,
     color |-> color, position |-> position, link |-> link]

\* { ...draft, id }
WithId(draft, id) ==
    Pin(id, draft.type, draft.name, draft.description, draft.color,
        draft.position, draft.link)

\* the fields of a pin other than its id
Fields(p) == [type |-> p.type, name |-> p.name, description |-> p.description,
              color |-> p.color, position |-> p.position, link |-> p.link]

\* Math.random().toString(36).substr(2, 9): the values the model draws from
RandomSuffixes == {"k3x", "q7f"}

\* Date.now(): the wall clock, which the system may also set back
Timestamps == 0 .. MaxClock

\* Date.now().toString() + Math.random().toString(36).substr(2, 9)
GenId(t, r) == <<t, r>>

\* App.handleAddPin
handleAddPin(ps, newPin, id) == Append(ps, WithId(newPin, id))

\* App.handleRemovePin
handleRemovePin(ps, id) == SelectSeq(ps, LAMBDA p : p.id # id)

\* App.handleEditPin
handleEditPin(ps, id, updatedPin) ==
    [i \in DOMAIN ps |-> IF ps[i].id = id THEN WithId(updatedPin, id) ELSE ps[i]]

-----------------------------------------------------------------------------
(* localStorage and JSON *)

PINS == "trip-planner-pins"
MAP_CENTER == "trip-planner-map-center"
MAP_ZOOM == "trip-planner-map-zoom"

STORAGE_KEYS == {PINS, MAP_CENTER, MAP_ZOOM}

\* what getItem can return: null, the empty string, a text that is not JSON,
\* or the JSON text of a value
NoItem == [kind |-> "null"]
EmptyItem == [kind |-> "empty"]
GarbageItem == [kind |-> "garbage"]
JSONText(v) == [kind |-> "json", val |-> v]

JSONNull == NaN - 1

\* JSON.stringify of a number: NaN is written as null
NumberToJSON(x) == IF isNaN(x) THEN JSONNull ELSE x

PositionToJSON(pos) == <<NumberToJSON(pos[1]), NumberToJSON(pos[2])>>

\* an absent link written as null
PinToJSONKeepLink(p) ==
    [id |-> p.id, type |-> p.type, name |-> p.name, description |-> p.description,
     color |-> p.color, position |-> PositionToJSON(p.position),
     link |-> IF p.link = Undefined THEN <<"n", "u", "l", "l">> ELSE p.link]

\* JSON.stringify of a pin: a property whose value is undefined is left out
PinToJSON(p) ==
    IF p.link = Undefined
    THEN [id |-> p.id, type |-> p.type, name |-> p.name, description |-> p.description,
          color |-> p.color, position |-> PositionToJSON(p.position)]
    ELSE [id |-> p.id, type |-> p.type, name |-> p.name, description |-> p.description,
          color |-> p.color, position |-> PositionToJSON(p.position), link |-> p.link]

\* JSON.stringify(data), for the value each key holds
JSONstringify(key, data) ==
    JSONText(CASE key = PINS -> [i \in DOMAIN data |-> PinToJSON(data[i])]
               [] key = MAP_CENTER -> PositionToJSON(data)
               [] OTHER -> NumberToJSON(data))

\* the link of a stored pin not read back
PinFromJSONNoLink(o) ==
    Pin(o.id, o.type, o.name, o.description, o.color, o.position, Undefined)

\* reading a property of a parsed object: undefined when it is not there
PinFromJSON(o) ==
    Pin(o.id, o.type, o.name, o.description, o.color, o.position,
        IF "link" \in DOMAIN o THEN o.link ELSE Undefined)

\* JSON.parse of a JSON text, for the value each key holds
JSONparse(key, item) ==
    CASE key = PINS -> [i \in DOMAIN item.val |-> PinFromJSON(item.val[i])]
      [] OTHER -> item.val

\* JSON.parse throws a SyntaxError
ParseThrows(item) == item.kind # "json"

\* saveToStorage without its try/catch
saveToStorageNoCatch(store, key, data, setItemThrows) ==
    IF setItemThrows THEN [store |-> store, threw |-> TRUE]
    ELSE [store |-> [store EXCEPT ![key] = JSONstringify(key, data)], threw |-> FALSE]

\* saveToStorage: the store afterwards and whether an exception reached the caller
saveToStorage(store, key, data, setItemThrows) ==
    IF setItemThrows THEN [store |-> store, threw |-> FALSE]
    ELSE [store |-> [store EXCEPT ![key] = JSONstringify(key, data)], threw |-> FALSE]

\* loadFromStorage without its try/catch
loadFromStorageNoCatch(store, key, defaultValue, getItemThrows) ==
    IF getItemThrows THEN [value |-> defaultValue, threw |-> TRUE]
    ELSE LET stored == store[key]
         IN  IF stored.kind \in {"null", "empty"} THEN [value |-> defaultValue, threw |-> FALSE]
             ELSE IF ParseThrows(stored) THEN [value |-> defaultValue, threw |-> TRUE]
             ELSE [value |-> JSONparse(key, stored), threw |-> FALSE]

\* loadFromStorage: the value returned and whether an exception reached the caller
loadFromStorage(store, key, defaultValue, getItemThrows) ==
    IF getItemThrows THEN [value |-> defaultValue, threw |-> FALSE]
    ELSE LET stored == store[key]
         IN  IF stored.kind \in {"null", "empty"} THEN [value |-> defaultValue, threw |-> FALSE]
             ELSE IF ParseThrows(stored) THEN [value |-> defaultValue, threw |-> FALSE]
             ELSE [value |-> JSONparse(key, stored), threw |-> FALSE]

DefaultPins == <<>>
DefaultCenter == <<(407128 * Unit) \div 10000, 0 - ((740060 * Unit) \div 10000)>>
DefaultZoom == 10
SelectZoom == 12

DefaultValue(key) ==
    CASE key = PINS -> DefaultPins
      [] key = MAP_CENTER -> DefaultCenter
      [] OTHER -> DefaultZoom

-----------------------------------------------------------------------------
(* What the user and the collaborators supply *)

\* contents of a form's name, description, type, colour and link inputs
FormFills ==
    { [name |-> <<"a">>, description |-> <<>>, type |-> "eat",
       color |-> "#ff6b6b", link |-> <<>>],
      [name |-> <<" ", "b", " ">>, description |-> <<"d", " ">>, type |-> "stay",
       color |-> "#4ecdc4", link |-> <<" ", "u">>],
      [name |-> <<" ">>, description |-> <<"d">>, type |-> "activity",
       color |-> "#ff6b6b", link |-> <<>>] }

\* the pairs the map widget's click event carries: e.latlng is not wrapped, so
\* a click on a copy of the world east of the antimeridian has lng > 180
\* where the user drags the map to, and the zoom levels they choose
PanCenters == { <<30 * Unit, 40 * Unit>>, <<10 * Unit, 20 * Unit>> }
WidgetZooms == { 11, 12 }

MapClicks == { <<10 * Unit, 20 * Unit>>, <<10 * Unit, 190 * Unit>> }

\* contents of the manual form's latitude and longitude inputs
ManualTexts ==
    { <<<<" ", "1", "0">>, <<"2", "0", ".", "0", "x">>>>,
      <<<<"9", "1">>, <<"0">>>>,
      <<<<"0">>, <<"-", "1", "8", "1">>>>,
      <<<<"x">>, <<"0">>>>,
      <<<<"1">>, <<>>>> }

\* results of the geocoding service: lat and lon are strings
ServiceResults ==
    { [display_name |-> <<"P", ",", "F">>, lat |-> <<"1", "0", ".", "0">>,
       lon |-> <<"2", "0">>] }

-----------------------------------------------------------------------------
(* Forms *)

\* the draft every form hands to onAddPin / onEditPin
DraftOf(fill, position) ==
    [name |-> Trim(fill.name), description |-> Trim(fill.description),
     type |-> fill.type, color |-> fill.color, position |-> position,
     link |-> IF Trim(fill.link) = <<>> THEN Undefined ELSE Trim(fill.link)]

\* the check of the name left out
NameMissingNever(fill) == FALSE

\* !name.trim()
NameMissing(fill) == Trim(fill.name) = <<>>

NoError == ""
ErrName == "Please enter a name for the pin"
ErrNumber == "Please enter valid numbers for latitude and longitude"
ErrLatitude == "Latitude must be between -90 and 90"
ErrLongitude == "Longitude must be between -180 and 180"

\* the ranges not tested
validateCoordinatesNoRange(latitude, longitude) ==
    IF isNaN(parseFloat(latitude)) \/ isNaN(parseFloat(longitude)) THEN ErrNumber
    ELSE NoError

\* ManualPinEntry.validateCoordinates: the error it sets ("" when it returns true)
validateCoordinates(latitude, longitude) ==
    LET lat == parseFloat(latitude)
        lon == parseFloat(longitude)
    IN  IF isNaN(lat) \/ isNaN(lon) THEN ErrNumber
        ELSE IF Lt(lat, (0 - 90) * Unit) \/ Lt(90 * Unit, lat) THEN ErrLatitude
        ELSE IF Lt(lon, (0 - 180) * Unit) \/ Lt(180 * Unit, lon) THEN ErrLongitude
        ELSE NoError

-----------------------------------------------------------------------------
(* ManualPinEntry: its state, what is typed and pasted, the coordinate parser *)

\* the useState initial values, which resetForm sets again
ManualEmpty ==
    [isExpanded |-> FALSE, latitude |-> <<>>, longitude |-> <<>>, name |-> <<>>,
     description |-> <<>>, type |-> "eat", color |-> "#ff6b6b", link |-> <<>>,
     error |-> NoError]

NoFormEvent == [op |-> "none"]

\* texts typed into the latitude, longitude, name and description inputs
LatitudeTexts == { <<"1", "0">>, <<"-", "9", "0">>, <<"9", "1">>, <<"x">>, <<>> }

LongitudeTexts == { <<"2", "0">>, <<"1", "8", "0">>, <<"-", "1", "8", "1">>, <<>> }

NameTexts == { <<"a">>, <<" ">>, <<>> }

DescriptionTexts == { <<"d", " ">>, <<>> }

\* the texts pasted: two tokens with a separator between and padding around,
\* and texts of three tokens
PasteTokens ==
    {
      <<"9", "0">>, <<"-", "9", "0">>, <<"9", "1">>, <<"-", "9", "1">>,
      <<"1", "8", "0">>, <<"-", "1", "8", "0">>, <<"1", "8", "1">>,
      <<"-", "1", "8", "1">>, <<"0">>, <<"1", ".", "5">>, <<"5", ".">>,
      <<".", "5">>, <<"1", ".", "2", ".", "3">>, <<"-">>, <<"x">>, <<>>,
      <<"9", "0", ".", "5">>, <<"-", "1", "8", "0", ".", "5">> }

PasteSeparators ==
    {
      <<",">>, <<",", " ">>, <<" ", ",">>, <<" ">>, <<" ", " ">>, <<>>,
      <<";">>, <<",", ",">> }

PastePadding == { <<>>, <<" ">> }

PasteTexts ==
    { pre \o a \o sep \o b \o post :
         pre \in PastePadding, a \in PasteTokens, sep \in PasteSeparators,
         b \in PasteTokens, post \in PastePadding }
    \cup { <<"1", " ", "2", " ", "3">>, <<"1", ",", "2", ",", "3">> }

\* s matches ^-?\d+\.?\d*$
MatchesNumber(s) ==
    LET u    == IF s # <<>> /\ Head(s) = "-" THEN Tail(s) ELSE s
        ints == DigitPrefix(u)
        r    == SubSeq(u, Len(ints) + 1, Len(u))
        d    == IF r # <<>> /\ Head(r) = "." THEN Tail(r) ELSE r
    IN  ints # <<>> /\ DigitPrefix(d) = d

\* s matches ^\s*$
MatchesSpaces(s) == \A i \in DOMAIN s : IsSpace(s[i])

\* s matches ^\s*,\s*$ (pattern 1) or ^\s+$ (pattern 2)
MatchesSeparator(pattern, s) ==
    IF pattern = 1
    THEN \E i \in DOMAIN s :
            /\ s[i] = ","
            /\ MatchesSpaces(SubSeq(s, 1, i - 1))
            /\ MatchesSpaces(SubSeq(s, i + 1, Len(s)))
    ELSE s # <<>> /\ MatchesSpaces(s)

\* cleaned.match(pattern): the pairs <<match[1], match[2]>> of the ways the
\* pattern matches cleaned (the empty set when it does not match)
Match(pattern, cleaned) ==
    { <<SubSeq(cleaned, 1, p[1]), SubSeq(cleaned, p[2], Len(cleaned))>> :
        p \in { q \in (1 .. Len(cleaned)) \X (1 .. Len(cleaned)) :
                  /\ q[1] < q[2]
                  /\ MatchesNumber(SubSeq(cleaned, 1, q[1]))
                  /\ MatchesSeparator(pattern, SubSeq(cleaned, q[1] + 1, q[2] - 1))
                  /\ MatchesNumber(SubSeq(cleaned, q[2], Len(cleaned))) } }

\* the range test with both bounds excluded
InRangeExclusive(lat, lon) ==
    /\ ~isNaN(lat) /\ ~isNaN(lon)
    /\ Lt((0 - 90) * Unit, lat) /\ Lt(lat, 90 * Unit)
    /\ Lt((0 - 180) * Unit, lon) /\ Lt(lon, 180 * Unit)

\* !isNaN(lat) && !isNaN(lon) && lat >= -90 && lat <= 90 && lon >= -180 && lon <= 180
InRange(lat, lon) ==
    /\ ~isNaN(lat) /\ ~isNaN(lon)
    /\ Leq((0 - 90) * Unit, lat) /\ Leq(lat, 90 * Unit)
    /\ Leq((0 - 180) * Unit, lon) /\ Leq(lon, 180 * Unit)

\* one turn of the loop of parseCoordinatePair: Null, or <<r>> with the
\* record r it returns
TryPattern(pattern, cleaned) ==
    LET ms == Match(pattern, cleaned)
    IN  IF ms = {} THEN Null
        ELSE LET match == CHOOSE m \in ms : TRUE
             IN  IF InRange(parseFloat(match[1]), parseFloat(match[2]))
                 THEN <<[lat |-> match[1], lon |-> match[2]]>>
                 ELSE Null

\* ManualPinEntry.parseCoordinatePair
parseCoordinatePair(text) ==
    LET cleaned == Trim(text)
    IN  IF TryPattern(1, cleaned) # Null THEN TryPattern(1, cleaned)
        ELSE TryPattern(2, cleaned)

\* the form emptied when the error is set
setErrorAndReset(m, error) == [ManualEmpty EXCEPT !.error = error]

\* setError(error), the fields of the form left as they are
setError(m, error) == [m EXCEPT !.error = error]

\* name.trim() && latitude && longitude, which enables the add button
isFormValid(m) == Trim(m.name) # <<>> /\ m.latitude # <<>> /\ m.longitude # <<>>

-----------------------------------------------------------------------------
(* LocationBasedPinManager: its state, what is typed, what the service answers *)

\* setTimeout(..., 300), in ticks of 100 ms
DebounceTicks == 3

\* searchQuery.trim().length > 2
MinQueryLength == 2

\* the useState initial values; description, type, color and link are the
\* draft fields the model leaves at their initial values
LocationEmpty ==
    [searchQuery |-> <<>>, suggestions |-> <<>>, selectedLocation |-> Null,
     isSearching |-> FALSE, showSuggestions |-> FALSE, name |-> <<>>,
     description |-> <<>>, type |-> "eat", color |-> "#ff6b6b", link |-> <<>>]

NoBurst == [since |-> DebounceTicks, sent |-> 0]

\* texts typed into the search input of the form
QueryTexts == { <<>>, <<"a", "b">>, <<"a", "b", " ">>, <<"a", "b", "c">>, <<"a", "b", "c", "d">> }

\* what a suggestion request ends with: response.ok and the results, a
\* response that is not ok, or fetch or response.json() throwing
SuggestionAnswers ==
    { [kind |-> "ok", results |-> <<>>] }
    \cup { [kind |-> "ok", results |-> <<r>>] : r \in ServiceResults }
    \cup { [kind |-> "not-ok"], [kind |-> "throws"] }

\* the part of display_name before the first comma: display_name.split(',')[0]
RECURSIVE BeforeComma(_)
BeforeComma(s) == IF s = <<>> \/ Head(s) = "," THEN <<>>
                  ELSE <<Head(s)>> \o BeforeComma(Tail(s))

\* the test on the length of the query not trimmed
LongEnoughUntrimmed(searchQuery) == Len(searchQuery) > MinQueryLength

\* searchQuery.trim().length > 2
LongEnough(searchQuery) == Len(Trim(searchQuery)) > MinQueryLength

\* clearTimeout left out
clearTimeoutNever(ts, ref) == ts

\* if (searchTimeoutRef.current) clearTimeout(searchTimeoutRef.current)
clearTimeout(ts, ref) ==
    IF ref = Null THEN ts ELSE { t \in ts : t.id # ref[1] }

\* the id window.setTimeout returns: one no pending timer has
NewTimerId(ts) == CHOOSE n \in 1 .. (Cardinality(ts) + 1) : \A t \in ts : t.id # n

-----------------------------------------------------------------------------
(* SearchComponent: its state, what is typed, what the service answers *)

\* the useState initial values
SearchEmpty == [searchQuery |-> <<>>, isLoading |-> FALSE, error |-> Null]

\* the messages of setError
ErrNotFound == "Location not found"
ErrSearch == "Error searching for location"

\* texts typed into the search input
LookupTexts == { <<>>, <<" ">>, <<"q">> }

\* a second place of the geocoding service
OtherResult == [display_name |-> <<"Q">>, lat |-> <<"-", "5", ".", "5">>, lon |-> <<"3", "0">>]

\* what the request of handleSearch ends with: response.ok and the results, a
\* response that is not ok, or fetch or response.json() throwing
LookupAnswers ==
    { [kind |-> "ok", results |-> <<>>] }
    \cup { [kind |-> "ok", results |-> <<r>>] : r \in ServiceResults }
    \cup { [kind |-> "ok", results |-> <<OtherResult, r>>] : r \in ServiceResults }
    \cup { [kind |-> "not-ok"], [kind |-> "throws"] }

\* the drop-down is rendered: showSuggestions && suggestions.length > 0
DropdownShown(m) == m.showSuggestions /\ m.suggestions # <<>>

\* the message SearchComponent renders: {error && <div>{error}</div>}
SearchError(c) == c.error

\* the message LocationBasedPinManager renders: it has no error state, and its
\* catch only logs
LocationFormError(m) == Null

\* the last of the results
LastMatch(results) == results[Len(results)]

\* results[0]
TopMatch(results) == results[1]

-----------------------------------------------------------------------------
(* The application *)

Memory(ps, center, zoom) == [pins |-> ps, center |-> center, zoom |-> zoom]

\* the state App holds for a key
Loaded(mem, key) ==
    CASE key = PINS -> mem.pins
      [] key = MAP_CENTER -> mem.center
      [] OTHER -> mem.zoom

Unmounted == Memory(DefaultPins, DefaultCenter, DefaultZoom)

\* the call a handler made on App's pin operations, if any
NoCall == [op |-> "none"]
AddCall(draft, id) == [op |-> "add", draft |-> draft, id |-> id]
RemoveCall(id) == [op |-> "remove", id |-> id]
EditCall(id, draft) == [op |-> "edit", id |-> id, draft |-> draft]

\* rd, wr: the keys whose getItem, setItem threw; mem: App's state as the
\* handler set it; call: the pin operation the handler called
Event(rd, wr, mem, call) == [rd |-> rd, wr |-> wr, mem |-> mem, call |-> call]

NoWrite(store) == [store |-> store, threw |-> FALSE]

\* the effect left out
PinsEffectNever(store, mem, dirty, F) == NoWrite(store)

\* useEffect(() => saveToStorage(STORAGE_KEYS.PINS, pins), [pins])
PinsEffect(store, mem, dirty, F) ==
    IF PINS \in dirty THEN saveToStorage(store, PINS, mem.pins, PINS \in F)
    ELSE NoWrite(store)

\* the center not written once the write of the pins has failed
CenterEffectAfterPins(store, mem, dirty, F) ==
    IF MAP_CENTER \in dirty /\ PINS \notin F
    THEN saveToStorage(store, MAP_CENTER, mem.center, MAP_CENTER \in F)
    ELSE NoWrite(store)

\* useEffect(() => saveToStorage(STORAGE_KEYS.MAP_CENTER, mapCenter), [mapCenter])
CenterEffect(store, mem, dirty, F) ==
    IF MAP_CENTER \in dirty THEN saveToStorage(store, MAP_CENTER, mem.center, MAP_CENTER \in F)
    ELSE NoWrite(store)

\* useEffect(() => saveToStorage(STORAGE_KEYS.MAP_ZOOM, mapZoom), [mapZoom])
ZoomEffect(store, mem, dirty, F) ==
    IF MAP_ZOOM \in dirty THEN saveToStorage(store, MAP_ZOOM, mem.zoom, MAP_ZOOM \in F)
    ELSE NoWrite(store)

\* a view of the map
View(center, zoom) == [center |-> center, zoom |-> zoom]

\* key={`${center[0]}-${center[1]}`}
MapKey(center) == <<center[1], "-", center[2]>>

\* <MapContainer center zoom key>, rendered with center and zoom where shown
\* was the center of the render before: a map is created with center and zoom
\* when there was none or when the key is another; otherwise the map there is
\* stays as it is, its center and zoom being read only when it is created
MapContainer(view, shown, center, zoom) ==
    IF view = Null \/ MapKey(center) # MapKey(shown) THEN View(center, zoom)
    ELSE view

\* The render that follows a handler: App's state becomes mem, and the effects
\* of the state that changed (dirty) run in order, each writing its key; the
\* setItem calls of the keys in F throw.  An exception that escapes an effect
\* unmounts the application.
Render(rd, mem, dirty, F, call) ==
    /\ F \subseteq dirty
    /\ failures + Cardinality(F) <= MaxWriteFailures
    /\ LET w1 == PinsEffect(storage, mem, dirty, F)
           w2 == IF w1.threw THEN w1 ELSE CenterEffect(w1.store, mem, dirty, F)
           w3 == IF w2.threw THEN w2 ELSE ZoomEffect(w2.store, mem, dirty, F)
           after == IF w3.threw THEN Unmounted ELSE mem
       IN  /\ storage' = w3.store
           /\ crashed' = w3.threw
           /\ pins' = after.pins
           /\ mapCenter' = after.center
           /\ mapZoom' = after.zoom
           /\ mapView' = IF w3.threw THEN Null
                         ELSE MapContainer(mapView, mapCenter, mem.center, mem.zoom)
    /\ failures' = failures + Cardinality(F)
    /\ lastWrite' = [k \in STORAGE_KEYS |->
                       IF k \in dirty THEN (IF k \in F THEN "failed" ELSE "ok")
                       ELSE lastWrite[k]]
    /\ saved' = [k \in STORAGE_KEYS |->
                   IF k \in dirty \ F THEN <<Loaded(mem, k)>> ELSE saved[k]]
    /\ ev' = Event(rd, F, mem, call)

Current == Memory(pins, mapCenter, mapZoom)

\* a handler that sets no state of App
NoRender == Render({}, Current, {}, {}, NoCall)

\* setPins(ps): pins is a new array, so its effect runs
SetPins(ps, F, call) == Render({}, Memory(ps, mapCenter, mapZoom), {PINS}, F, call)

\* onAddPin(draft), with the id handleAddPin generates
OnAddPin(draft, id, F) == SetPins(handleAddPin(pins, draft, id), F, AddCall(draft, id))

\* onRemovePin(id)
OnRemovePin(id, F) == SetPins(handleRemovePin(pins, id), F, RemoveCall(id))

\* onEditPin(id, draft)
OnEditPin(id, draft, F) == SetPins(handleEditPin(pins, id, draft), F, EditCall(id, draft))

Running == phase = "running" /\ ~crashed

\* useState initializers of App, then the three effects of the first render
Mount ==
    /\ phase = "boot"
    /\ \E R \in SUBSET STORAGE_KEYS, F \in SUBSET STORAGE_KEYS :
         LET l1 == loadFromStorage(storage, PINS, DefaultPins, PINS \in R)
             l2 == loadFromStorage(storage, MAP_CENTER, DefaultCenter, MAP_CENTER \in R)
             l3 == loadFromStorage(storage, MAP_ZOOM, DefaultZoom, MAP_ZOOM \in R)
         IN  IF l1.threw \/ l2.threw \/ l3.threw
             THEN /\ crashed' = TRUE
                  /\ ev' = Event(R, {}, Unmounted, NoCall)
                  /\ UNCHANGED <<storage, pins, mapCenter, mapZoom, mapView, lastWrite,
                                 saved, failures>>
             ELSE Render(R, Memory(l1.value, l2.value, l3.value),
                         STORAGE_KEYS, F, NoCall)
    /\ phase' = "running"
    /\ UNCHANGED <<selectedPosition, editingPin, pinToDelete>>
    /\ UNCHANGED formVars

\* the page is loaded again: the state in memory is gone, the store is kept
Reload ==
    /\ phase = "running"
    /\ phase' = "boot"
    /\ pins' = DefaultPins /\ mapCenter' = DefaultCenter /\ mapZoom' = DefaultZoom
    /\ mapView' = Null
    /\ selectedPosition' = Null /\ editingPin' = Null /\ pinToDelete' = Null
    /\ lastWrite' = [k \in STORAGE_KEYS |-> "none"]
    /\ crashed' = FALSE
    /\ ev' = Event({}, {}, Unmounted, NoCall)
    /\ manualPinEntry' = ManualEmpty
    /\ locationManager' = LocationEmpty
    /\ searchTimeoutRef' = Null
    /\ timers' = {}
    /\ requests' = <<>>
    /\ burst' = NoBurst
    /\ searchComponent' = SearchEmpty
    /\ lookup' = Null
    /\ formEv' = NoFormEvent
    /\ UNCHANGED <<storage, saved, failures, clipboard>>

\* App.handleMapClick, from MapClickHandler's click event; the forms shown
\* when no position is selected are unmounted
MapClick ==
    /\ Running
    /\ \E pos \in MapClicks : selectedPosition' = <<pos>>
    /\ NoRender
    /\ UNCHANGED <<phase, editingPin, pinToDelete>>
    /\ UNCHANGED formVars

\* App.handleClearSelection, from the Cancel button of the add form
ClearSelection ==
    /\ Running
    /\ selectedPosition # Null
    /\ selectedPosition' = Null
    /\ NoRender
    /\ UNCHANGED <<phase, editingPin, pinToDelete>>
    /\ UNCHANGED formVars

\* PinManager.handleAddPin: the add form of a position clicked on the map
MapAddPin ==
    /\ Running
    /\ selectedPosition # Null
    /\ \E fill \in FormFills, t \in Timestamps, r \in RandomSuffixes :
         IF NameMissing(fill)
         THEN /\ NoRender
              /\ UNCHANGED selectedPosition
         ELSE /\ Len(pins) < MaxPins
              /\ \E F \in SUBSET {PINS} :
                   OnAddPin(DraftOf(fill, selectedPosition[1]), GenId(t, r), F)
              /\ selectedPosition' = Null
    /\ UNCHANGED <<phase, editingPin, pinToDelete>>
    /\ UNCHANGED formVars

\* the forms rendered when !selectedPosition && !editingPin
AddFormsShown == selectedPosition = Null /\ editingPin = Null

\* ManualPinEntry.handleAddPin
ManualAddPin ==
    /\ Running
    /\ AddFormsShown
    /\ \E fill \in FormFills, texts \in ManualTexts, t \in Timestamps, r \in RandomSuffixes :
         LET latitude == texts[1]
             longitude == texts[2]
             error == validateCoordinates(latitude, longitude)
         IN  IF NameMissing(fill)
             THEN NoRender
             ELSE IF error # NoError
             THEN NoRender
             ELSE /\ Len(pins) < MaxPins
                  /\ \E F \in SUBSET {PINS} :
                       OnAddPin(DraftOf(fill, <<parseFloat(latitude), parseFloat(longitude)>>),
                                GenId(t, r), F)
    /\ UNCHANGED <<phase, selectedPosition, editingPin, pinToDelete>>
    /\ UNCHANGED formVars

\* LocationBasedPinManager.handleAddPin, with the suggestion selected before
LocationAddPin ==
    /\ Running
    /\ AddFormsShown
    /\ \E fill \in FormFills, selectedLocation \in ServiceResults, t \in Timestamps, r \in RandomSuffixes :
         IF NameMissing(fill)
         THEN NoRender
         ELSE /\ Len(pins) < MaxPins
              /\ \E F \in SUBSET {PINS} :
                   OnAddPin(DraftOf(fill, <<parseFloat(selectedLocation.lat),
                                            parseFloat(selectedLocation.lon)>>),
                            GenId(t, r), F)
    /\ UNCHANGED <<phase, selectedPosition, editingPin, pinToDelete>>
    /\ UNCHANGED formVars

\* the remove button of a pin card: onRemovePin(pin.id)
SidebarRemove ==
    /\ Running
    /\ \E i \in DOMAIN pins, F \in SUBSET {PINS} :
         OnRemovePin(pins[i].id, F)
    /\ UNCHANGED <<phase, selectedPosition, editingPin, pinToDelete>>
    /\ UNCHANGED formVars

\* PinManager.handleEditPin, from the edit button of a pin card (disabled
\* while a pin is being edited)
StartEdit ==
    /\ Running
    /\ editingPin = Null
    /\ \E i \in DOMAIN pins :
         editingPin' = <<[id |-> pins[i].id, position |-> pins[i].position]>>
    /\ NoRender
    /\ UNCHANGED <<phase, selectedPosition, pinToDelete>>
    /\ UNCHANGED formVars

\* PinManager.handleSaveEdit
SaveEdit ==
    /\ Running
    /\ editingPin # Null
    /\ \E fill \in FormFills :
         IF NameMissing(fill)
         THEN /\ NoRender
              /\ UNCHANGED editingPin
         ELSE /\ \E F \in SUBSET {PINS} :
                   OnEditPin(editingPin[1].id, DraftOf(fill, editingPin[1].position), F)
              /\ editingPin' = Null
    /\ UNCHANGED <<phase, selectedPosition, pinToDelete>>
    /\ UNCHANGED formVars

\* PinManager.handleCancelEdit
CancelEdit ==
    /\ Running
    /\ editingPin # Null
    /\ editingPin' = Null
    /\ NoRender
    /\ UNCHANGED <<phase, selectedPosition, pinToDelete>>
    /\ UNCHANGED formVars

\* MapComponent.handleDeleteClick, from the delete button of a pin's popup
DeleteClick ==
    /\ Running
    /\ \E i \in DOMAIN pins : pinToDelete' = <<pins[i].id>>
    /\ NoRender
    /\ UNCHANGED <<phase, selectedPosition, editingPin>>
    /\ UNCHANGED formVars

\* MapComponent.handleConfirmDelete
ConfirmDelete ==
    /\ Running
    /\ pinToDelete # Null
    /\ \E F \in SUBSET {PINS} :
         OnRemovePin(pinToDelete[1], F)
    /\ pinToDelete' = Null
    /\ UNCHANGED <<phase, selectedPosition, editingPin>>
    /\ UNCHANGED formVars

\* MapComponent.handleCancelDelete
CancelDelete ==
    /\ Running
    /\ pinToDelete # Null
    /\ pinToDelete' = Null
    /\ NoRender
    /\ UNCHANGED <<phase, selectedPosition, editingPin>>
    /\ UNCHANGED formVars

\* App.handleLocationSelect, called by SearchComponent.handleSearch with the
\* top result: mapCenter is a new array, mapZoom changes only if it was not 12
LocationSelect ==
    /\ Running
    /\ \E result \in ServiceResults :
         LET mem == Memory(pins, <<parseFloat(result.lat), parseFloat(result.lon)>>, SelectZoom)
             dirty == {MAP_CENTER} \cup (IF mapZoom # SelectZoom THEN {MAP_ZOOM} ELSE {})
         IN  \E F \in SUBSET dirty : Render({}, mem, dirty, F, NoCall)
    /\ UNCHANGED <<phase, selectedPosition, editingPin, pinToDelete>>
    /\ UNCHANGED formVars

\* the user drags the map: no handler is registered for it (MapClickHandler
\* registers click alone)
MapPan ==
    /\ Running
    /\ mapView # Null
    /\ \E center \in PanCenters :
         /\ center # mapView.center
         /\ mapView' = [mapView EXCEPT !.center = center]
    /\ ev' = Event({}, {}, Current, NoCall)
    /\ UNCHANGED <<phase, storage, pins, mapCenter, mapZoom, selectedPosition,
                   editingPin, pinToDelete, lastWrite, saved, failures, crashed>>
    /\ UNCHANGED formVars

\* the user zooms the map with its controls or the wheel: no handler either
MapZoom ==
    /\ Running
    /\ mapView # Null
    /\ \E zoom \in WidgetZooms :
         /\ zoom # mapView.zoom
         /\ mapView' = [mapView EXCEPT !.zoom = zoom]
    /\ ev' = Event({}, {}, Current, NoCall)
    /\ UNCHANGED <<phase, storage, pins, mapCenter, mapZoom, selectedPosition,
                   editingPin, pinToDelete, lastWrite, saved, failures, crashed>>
    /\ UNCHANGED formVars

\* the toggle button of ManualPinEntry: setIsExpanded(!isExpanded)
ToggleExpanded ==
    /\ Running
    /\ AddFormsShown
    /\ manualPinEntry' = [manualPinEntry EXCEPT !.isExpanded = ~manualPinEntry.isExpanded]
    /\ formEv' = [op |-> "toggle"]
    /\ UNCHANGED <<appVars, clipboard, suggestVars, lookupVars>>

\* the manual form is rendered
ManualFormShown == Running /\ AddFormsShown /\ manualPinEntry.isExpanded

\* onChange of the latitude input: setLatitude(e.target.value); setError('')
LatitudeChange ==
    /\ ManualFormShown
    /\ \E text \in LatitudeTexts :
         manualPinEntry' = [manualPinEntry EXCEPT !.latitude = text, !.error = NoError]
    /\ formEv' = [op |-> "input"]
    /\ UNCHANGED <<appVars, clipboard, suggestVars, lookupVars>>

\* onChange of the longitude input: setLongitude(e.target.value); setError('')
LongitudeChange ==
    /\ ManualFormShown
    /\ \E text \in LongitudeTexts :
         manualPinEntry' = [manualPinEntry EXCEPT !.longitude = text, !.error = NoError]
    /\ formEv' = [op |-> "input"]
    /\ UNCHANGED <<appVars, clipboard, suggestVars, lookupVars>>

\* onChange of the name input: setName(e.target.value)
NameChange ==
    /\ ManualFormShown
    /\ \E text \in NameTexts :
         manualPinEntry' = [manualPinEntry EXCEPT !.name = text]
    /\ formEv' = [op |-> "input"]
    /\ UNCHANGED <<appVars, clipboard, suggestVars, lookupVars>>

\* onChange of the description input: setDescription(e.target.value)
DescriptionChange ==
    /\ ManualFormShown
    /\ \E text \in DescriptionTexts :
         manualPinEntry' = [manualPinEntry EXCEPT !.description = text]
    /\ formEv' = [op |-> "input"]
    /\ UNCHANGED <<appVars, clipboard, suggestVars, lookupVars>>

\* ManualPinEntry.handlePaste, on either coordinate input; when the text is no
\* pair the handler changes nothing and the input's own paste follows
handlePaste ==
    /\ ManualFormShown
    /\ LET pastedText == clipboard
           parsed == parseCoordinatePair(pastedText)
       IN  /\ manualPinEntry' =
                   IF parsed # Null
                   THEN [manualPinEntry EXCEPT !.latitude = parsed[1].lat,
                                               !.longitude = parsed[1].lon,
                                               !.error = NoError]
                   ELSE manualPinEntry
           /\ formEv' = [op |-> "paste", parsed |-> parsed]
    /\ UNCHANGED <<appVars, clipboard, suggestVars, lookupVars>>

\* ManualPinEntry.handleAddPin, from the add button (disabled unless
\* isFormValid), with the fields of the form as they are
ManualHandleAddPin ==
    /\ ManualFormShown
    /\ isFormValid(manualPinEntry)
    /\ LET error == validateCoordinates(manualPinEntry.latitude, manualPinEntry.longitude)
       IN  IF NameMissing(manualPinEntry)
           THEN /\ manualPinEntry' = setError(manualPinEntry, ErrName)
                /\ NoRender
           ELSE IF error # NoError
           THEN /\ manualPinEntry' = setError(manualPinEntry, error)
                /\ NoRender
           ELSE /\ Len(pins) < MaxManualPins
                /\ \E t \in Timestamps, r \in RandomSuffixes, F \in SUBSET {PINS} :
                     OnAddPin(DraftOf(manualPinEntry,
                                      <<parseFloat(manualPinEntry.latitude),
                                        parseFloat(manualPinEntry.longitude)>>),
                              GenId(t, r), F)
                /\ manualPinEntry' = ManualEmpty
    /\ formEv' = [op |-> "submit"]
    /\ UNCHANGED <<phase, selectedPosition, editingPin, pinToDelete, clipboard,
                   suggestVars, lookupVars>>

\* ManualPinEntry.resetForm, from the Cancel button
ManualCancel ==
    /\ ManualFormShown
    /\ manualPinEntry' = ManualEmpty
    /\ formEv' = [op |-> "cancel"]
    /\ UNCHANGED <<appVars, clipboard, suggestVars, lookupVars>>

\* LocationBasedPinManager is rendered, with AddFormsShown
LocationFormShown == Running /\ AddFormsShown

\* a sequence without its i-th element
DropAt(s, i) == SubSeq(s, 1, i - 1) \o SubSeq(s, i + 1, Len(s))

\* the render after a handler of the form has set its state to m, and the
\* effect on [searchQuery] when the query is another than before: its cleanup
\* and its body
SetSearchQuery(m) ==
    IF m.searchQuery = locationManager.searchQuery
    THEN /\ locationManager' = m
         /\ UNCHANGED <<searchTimeoutRef, timers, burst>>
    ELSE LET cleared == clearTimeout(timers, searchTimeoutRef)
             id == NewTimerId(cleared)
         IN  /\ IF LongEnough(m.searchQuery)
                THEN /\ timers' = cleared \cup {[id |-> id, query |-> m.searchQuery,
                                                 left |-> DebounceTicks]}
                     /\ searchTimeoutRef' = <<id>>
                     /\ locationManager' = m
                ELSE /\ timers' = cleared
                     /\ searchTimeoutRef' = searchTimeoutRef
                     /\ locationManager' = [m EXCEPT !.suggestions = <<>>,
                                                     !.showSuggestions = FALSE]
             /\ burst' = [since |-> 0,
                          sent |-> IF burst.since < DebounceTicks THEN burst.sent ELSE 0]

\* the search input of the form: onChange, with a value other than the one shown
QueryChange ==
    /\ LocationFormShown
    /\ \E text \in QueryTexts :
         /\ text # locationManager.searchQuery
         /\ SetSearchQuery([locationManager EXCEPT !.searchQuery = text])
         /\ formEv' = [op |-> "query", query |-> text]
    /\ UNCHANGED <<appVars, manualVars, lookupVars, requests>>

\* 100 ms pass
Tick ==
    /\ LocationFormShown
    /\ burst.since < DebounceTicks \/ \E t \in timers : t.left > 0
    /\ burst' = [burst EXCEPT !.since = IF @ < DebounceTicks THEN @ + 1 ELSE @]
    /\ timers' = { [t EXCEPT !.left = IF @ > 0 THEN @ - 1 ELSE 0] : t \in timers }
    /\ formEv' = [op |-> "tick"]
    /\ UNCHANGED <<appVars, manualVars, lookupVars, locationManager, searchTimeoutRef, requests>>

\* a timer set by the effect fires: searchLocations(searchQuery) up to its fetch
searchLocations ==
    /\ LocationFormShown
    /\ Len(requests) < MaxInFlight
    /\ \E t \in timers :
         /\ t.left = 0
         /\ timers' = timers \ {t}
         /\ locationManager' = [locationManager EXCEPT !.isSearching = TRUE]
         /\ requests' = Append([i \in DOMAIN requests |-> [requests[i] EXCEPT !.newest = FALSE]],
                               [query |-> t.query, newest |-> TRUE])
         /\ burst' = [burst EXCEPT !.sent = @ + 1]
         /\ formEv' = [op |-> "request", query |-> t.query, timer |-> t.id]
    /\ UNCHANGED <<appVars, manualVars, lookupVars, searchTimeoutRef>>

\* searchLocations from its fetch on: a request is answered, or fails
SuggestionResponse ==
    /\ LocationFormShown
    /\ \E i \in DOMAIN requests, answer \in SuggestionAnswers :
         /\ requests' = DropAt(requests, i)
         /\ locationManager' =
                IF answer.kind = "ok"
                THEN [locationManager EXCEPT !.suggestions = answer.results,
                                             !.showSuggestions = TRUE,
                                             !.isSearching = FALSE]
                ELSE [locationManager EXCEPT !.isSearching = FALSE]
         /\ formEv' = [op |-> "response", kind |-> answer.kind,
                       query |-> requests[i].query, newest |-> requests[i].newest,
                       others |-> Len(requests) - 1]
    /\ UNCHANGED <<appVars, manualVars, lookupVars, searchTimeoutRef, timers, burst>>

\* LocationBasedPinManager.handleSuggestionClick, on an entry of the drop-down
handleSuggestionClick ==
    /\ LocationFormShown
    /\ locationManager.showSuggestions
    /\ \E i \in DOMAIN locationManager.suggestions :
         LET suggestion == locationManager.suggestions[i]
         IN  /\ SetSearchQuery(
                  [locationManager EXCEPT
                     !.selectedLocation = <<suggestion>>,
                     !.searchQuery = suggestion.display_name,
                     !.showSuggestions = FALSE,
                     !.name = IF @ = <<>> THEN Trim(BeforeComma(suggestion.display_name))
                              ELSE @])
             /\ formEv' = [op |-> "select", query |-> suggestion.display_name]
    /\ UNCHANGED <<appVars, manualVars, lookupVars, requests>>

\* the name input of the form, shown once a location is selected
LocationNameChange ==
    /\ LocationFormShown
    /\ locationManager.selectedLocation # Null
    /\ \E text \in NameTexts :
         /\ text # locationManager.name
         /\ locationManager' = [locationManager EXCEPT !.name = text]
    /\ formEv' = [op |-> "name"]
    /\ UNCHANGED <<appVars, manualVars, lookupVars, searchTimeoutRef, timers, requests, burst>>

\* LocationBasedPinManager.handleAddPin, from the add button
LocationHandleAddPin ==
    /\ LocationFormShown
    /\ locationManager.selectedLocation # Null
    /\ ~NameMissing(locationManager)
    /\ Len(pins) < MaxManualPins
    /\ LET selectedLocation == locationManager.selectedLocation[1]
       IN  \E t \in Timestamps, r \in RandomSuffixes, F \in SUBSET {PINS} :
             OnAddPin(DraftOf(locationManager,
                              <<parseFloat(selectedLocation.lat),
                                parseFloat(selectedLocation.lon)>>),
                      GenId(t, r), F)
    /\ SetSearchQuery([LocationEmpty EXCEPT !.isSearching = locationManager.isSearching])
    /\ formEv' = [op |-> "submit"]
    /\ UNCHANGED <<phase, selectedPosition, editingPin, pinToDelete, manualVars,
                   lookupVars, requests>>

\* a geocoding result put where App.handleAddPin puts a new pin
handleLocationSelectAddsPin(lat, lon) ==
    \E t \in Timestamps, r \in RandomSuffixes, F \in SUBSET {PINS} :
      OnAddPin(DraftOf(LocationEmpty, <<lat, lon>>), GenId(t, r), F)

\* App.handleLocationSelect: mapCenter is a new array, mapZoom changes only if
\* it was not 12
handleLocationSelect(lat, lon) ==
    LET mem == Memory(pins, <<lat, lon>>, SelectZoom)
        dirty == {MAP_CENTER} \cup (IF mapZoom # SelectZoom THEN {MAP_ZOOM} ELSE {})
    IN  \E F \in SUBSET dirty : Render({}, mem, dirty, F, NoCall)

\* the search input of SearchComponent: onChange (disabled while loading)
LookupQueryChange ==
    /\ Running
    /\ ~searchComponent.isLoading
    /\ \E text \in LookupTexts :
         /\ text # searchComponent.searchQuery
         /\ searchComponent' = [searchComponent EXCEPT !.searchQuery = text]
    /\ formEv' = [op |-> "lookup-query"]
    /\ UNCHANGED <<appVars, manualVars, suggestVars, lookup>>

\* SearchComponent.handleSearch up to its fetch, from the Search button or the
\* Enter key (both disabled while loading)
handleSearch ==
    /\ Running
    /\ ~searchComponent.isLoading
    /\ Trim(searchComponent.searchQuery) # <<>>
    /\ searchComponent' = [searchComponent EXCEPT !.isLoading = TRUE, !.error = Null]
    /\ lookup' = <<searchComponent.searchQuery>>
    /\ formEv' = [op |-> "lookup"]
    /\ UNCHANGED <<appVars, manualVars, suggestVars>>

\* SearchComponent.handleSearch from its fetch on: the request is answered, or
\* fails
LookupResponse ==
    /\ Running
    /\ lookup # Null
    /\ \E answer \in LookupAnswers :
         /\ IF answer.kind = "ok" /\ Len(answer.results) > 0
            THEN LET result == TopMatch(answer.results)
                 IN  /\ handleLocationSelect(parseFloat(result.lat), parseFloat(result.lon))
                     /\ searchComponent' = [searchComponent EXCEPT !.isLoading = FALSE]
            ELSE /\ NoRender
                 /\ searchComponent' =
                        [searchComponent EXCEPT
                           !.isLoading = FALSE,
                           !.error = IF answer.kind = "ok" THEN <<ErrNotFound>>
                                     ELSE <<ErrSearch>>]
         /\ formEv' = [op |-> "lookup-response", answer |-> answer]
    /\ lookup' = Null
    /\ UNCHANGED <<phase, selectedPosition, editingPin, pinToDelete, manualVars, suggestVars>>

-----------------------------------------------------------------------------
(* Specification *)

\* what localStorage may hold when the page is first opened
InitialStores ==
    { [k \in STORAGE_KEYS |-> NoItem],
      [k \in STORAGE_KEYS |-> IF k = PINS THEN GarbageItem ELSE NoItem],
      [k \in STORAGE_KEYS |-> IF k = PINS THEN EmptyItem ELSE GarbageItem] }

Init ==
    /\ phase = "boot"
    /\ storage \in InitialStores
    /\ pins = DefaultPins
    /\ mapCenter = DefaultCenter
    /\ mapZoom = DefaultZoom
    /\ mapView = Null
    /\ selectedPosition = Null
    /\ editingPin = Null
    /\ pinToDelete = Null
    /\ lastWrite = [k \in STORAGE_KEYS |-> "none"]
    /\ saved = [k \in STORAGE_KEYS |-> <<>>]
    /\ failures = 0
    /\ crashed = FALSE
    /\ ev = Event({}, {}, Unmounted, NoCall)
    /\ manualPinEntry = ManualEmpty
    /\ locationManager = LocationEmpty
    /\ searchTimeoutRef = Null
    /\ timers = {}
    /\ requests = <<>>
    /\ burst = NoBurst
    /\ searchComponent = SearchEmpty
    /\ lookup = Null
    /\ clipboard = <<>>
    /\ formEv = NoFormEvent

Next ==
    \/ Mount
    \/ Reload
    \/ MapClick
    \/ ClearSelection
    \/ MapAddPin
    \/ ManualAddPin
    \/ LocationAddPin
    \/ SidebarRemove
    \/ StartEdit
    \/ SaveEdit
    \/ CancelEdit
    \/ DeleteClick
    \/ ConfirmDelete
    \/ CancelDelete

\* the pin collection: the forms, the pin cards, the popup's dialog
Spec == Init /\ [][Next]_vars

NextView ==
    \/ Mount
    \/ Reload
    \/ MapClick
    \/ MapAddPin
    \/ SidebarRemove
    \/ StartEdit
    \/ SaveEdit
    \/ LocationSelect

\* the viewport next to the pin collection: the location search recenters the map
SpecView == Init /\ [][NextView]_vars

\* the viewport alone: searches that recenter the map, the user moving the map
NextWidget ==
    \/ Mount
    \/ Reload
    \/ LocationSelect
    \/ MapPan
    \/ MapZoom

SpecWidget == Init /\ [][NextWidget]_vars

\* the application mounted for the first time on an empty store, all three
\* writes of the first render done
AppFresh ==
    /\ phase = "running"
    /\ storage = [k \in STORAGE_KEYS |-> JSONstringify(k, DefaultValue(k))]
    /\ pins = DefaultPins
    /\ mapCenter = DefaultCenter
    /\ mapZoom = DefaultZoom
    /\ mapView = View(DefaultCenter, DefaultZoom)
    /\ selectedPosition = Null
    /\ editingPin = Null
    /\ pinToDelete = Null
    /\ lastWrite = [k \in STORAGE_KEYS |-> "ok"]
    /\ saved = [k \in STORAGE_KEYS |-> <<DefaultValue(k)>>]
    /\ failures = 0
    /\ crashed = FALSE
    /\ ev = Event({}, {}, Unmounted, NoCall)

\* the same, with the forms as they are first rendered
RunningFresh ==
    /\ AppFresh
    /\ manualPinEntry = ManualEmpty
    /\ locationManager = LocationEmpty
    /\ searchTimeoutRef = Null
    /\ timers = {}
    /\ requests = <<>>
    /\ burst = NoBurst
    /\ searchComponent = SearchEmpty
    /\ lookup = Null
    /\ formEv = NoFormEvent

InitRunning == RunningFresh /\ clipboard = <<>>

\* the same, with a text to paste on the clipboard
InitPaste == RunningFresh /\ clipboard \in PasteTexts

NextManual ==
    \/ ToggleExpanded
    \/ LatitudeChange
    \/ LongitudeChange
    \/ NameChange
    \/ DescriptionChange
    \/ ManualHandleAddPin
    \/ ManualCancel

\* the manual form: typing, the add button, the Cancel button
SpecManual == InitRunning /\ [][NextManual]_vars

NextPaste ==
    \/ ToggleExpanded
    \/ handlePaste
    \/ ManualCancel

\* the coordinate inputs of the manual form: pasting the text of the clipboard
SpecPaste == InitPaste /\ [][NextPaste]_vars

\* the suggestions of LocationBasedPinManager, in a running application
NextSuggest ==
    \/ QueryChange
    \/ Tick
    \/ searchLocations
    \/ SuggestionResponse
    \/ handleSuggestionClick
    \/ LocationNameChange
    \/ LocationHandleAddPin

SpecSuggest == InitRunning /\ [][NextSuggest]_vars

\* the single-result search of SearchComponent, in a running application
NextLookup ==
    \/ LookupQueryChange
    \/ handleSearch
    \/ LookupResponse

SpecLookup == InitRunning /\ [][NextLookup]_vars

\* a running application after "abc" was typed into the search input of
\* LocationBasedPinManager and then "q" into the one of SearchComponent
InitGeocoding ==
    /\ AppFresh
    /\ manualPinEntry = ManualEmpty
    /\ clipboard = <<>>
    /\ requests = <<>>
    /\ lookup = Null
    /\ \E m \in {[LocationEmpty EXCEPT !.searchQuery = <<"a", "b", "c">>]},
          c \in {[SearchEmpty EXCEPT !.searchQuery = <<"q">>]} :
         /\ locationManager = m
         /\ searchTimeoutRef = <<1>>
         /\ timers = {[id |-> 1, query |-> m.searchQuery, left |-> DebounceTicks]}
         /\ burst = [since |-> 0, sent |-> 0]
         /\ searchComponent = c
    /\ formEv = [op |-> "lookup-query"]

\* both uses of the geocoding service, and the form that adds a pin
NextGeocoding ==
    \/ Tick
    \/ searchLocations
    \/ SuggestionResponse
    \/ handleSuggestionClick
    \/ LocationHandleAddPin
    \/ handleSearch
    \/ LookupResponse

SpecGeocoding == InitGeocoding /\ [][NextGeocoding]_vars

-----------------------------------------------------------------------------
(* Properties *)

Ids(ps) == [i \in DOMAIN ps |-> ps[i].id]

UniqueIds(ps) == \A i, j \in DOMAIN ps : i # j => ps[i].id # ps[j].id

HasId(ps, id) == \E i \in DOMAIN ps : ps[i].id = id

\* looking a pin up by its id: the first pin of the collection that has it
Lookup(ps, id) ==
    ps[CHOOSE i \in DOMAIN ps : ps[i].id = id /\ \A j \in 1 .. (i - 1) : ps[j].id # id]

RemoveAt(ps, i) == SubSeq(ps, 1, i - 1) \o SubSeq(ps, i + 1, Len(ps))

LatitudeOK(x) == Leq((0 - 90) * Unit, x) /\ Leq(x, 90 * Unit)

LongitudeOK(x) == Leq((0 - 180) * Unit, x) /\ Leq(x, 180 * Unit)

\* C1: in every state no two pins of the collection have the same id, and an
\* edit leaves the id of every pin as it was.
C1_IdsUniqueAndImmutable ==
    [][ /\ phase' = "running" => UniqueIds(pins')
        /\ ev'.call.op = "edit" => Ids(pins') = Ids(pins) ]_vars

\* C2: add(draft) yields the previous collection followed by one new pin whose
\* fields other than id are the draft's, and looking that pin up by its id
\* returns those fields.
C2_AddAppendsAndIsFound ==
    [][ ev'.call.op = "add" =>
          /\ ~crashed'
          /\ Len(pins') = Len(pins) + 1
          /\ SubSeq(pins', 1, Len(pins)) = pins
          /\ Fields(pins'[Len(pins')]) = ev'.call.draft
          /\ Fields(Lookup(pins', pins'[Len(pins')].id)) = ev'.call.draft ]_vars

\* C3: edit(id, draft) on an id of the collection replaces the fields of that
\* one pin, keeping its id, and leaves every other pin, the length and the
\* order as they were; on an id that is not in the collection it changes nothing.
C3_EditReplacesOnePin ==
    [][ ev'.call.op = "edit" =>
          IF HasId(pins, ev'.call.id)
          THEN \E i \in DOMAIN pins :
                 /\ pins[i].id = ev'.call.id
                 /\ pins' = [pins EXCEPT ![i] = WithId(ev'.call.draft, ev'.call.id)]
          ELSE pins' = pins ]_vars

\* C4: remove(id) on an id of the collection removes that one pin and keeps
\* the others in their order; on an id that is not in the collection it
\* changes nothing and raises no error.
C4_RemoveDropsOnePin ==
    [][ ev'.call.op = "remove" =>
          /\ ~crashed'
          /\ IF HasId(pins, ev'.call.id)
             THEN \E i \in DOMAIN pins :
                    pins[i].id = ev'.call.id /\ pins' = RemoveAt(pins, i)
             ELSE pins' = pins ]_vars

\* a step between two collections in which no id occurs twice
IdsStayUnique == UniqueIds(pins) /\ UniqueIds(pins')

\* C2, for the steps in which no id occurs twice: the add appends the draft,
\* and the lookup by the new id finds it.
C2_AddWhenIdsUnique ==
    [][ (ev'.call.op = "add" /\ IdsStayUnique) =>
          /\ ~crashed'
          /\ pins' = Append(pins, WithId(ev'.call.draft, ev'.call.id))
          /\ Fields(Lookup(pins', ev'.call.id)) = ev'.call.draft ]_vars

\* C3, for the steps in which no id occurs twice.
C3_EditWhenIdsUnique ==
    [][ (ev'.call.op = "edit" /\ IdsStayUnique) =>
          IF HasId(pins, ev'.call.id)
          THEN \E i \in DOMAIN pins :
                 /\ pins[i].id = ev'.call.id
                 /\ pins' = [pins EXCEPT ![i] = WithId(ev'.call.draft, ev'.call.id)]
          ELSE pins' = pins ]_vars

\* C4, for the steps in which no id occurs twice.
C4_RemoveWhenIdsUnique ==
    [][ (ev'.call.op = "remove" /\ IdsStayUnique) =>
          /\ ~crashed'
          /\ IF HasId(pins, ev'.call.id)
             THEN \E i \in DOMAIN pins :
                    pins[i].id = ev'.call.id /\ pins' = RemoveAt(pins, i)
             ELSE pins' = pins ]_vars

\* C5: every pin of the collection has its latitude in [-90, 90] and its
\* longitude in [-180, 180].
C5_PositionsInRange ==
    \A i \in DOMAIN pins :
        LatitudeOK(pins[i].position[1]) /\ LongitudeOK(pins[i].position[2])

\* C6: every pin of the collection has a name that is not empty and is trimmed.
C6_NamesNonEmptyTrimmed ==
    \A i \in DOMAIN pins : pins[i].name # <<>> /\ Trim(pins[i].name) = pins[i].name

\* a pin whose name was typed with spaces around it is in the collection
C6_Witness ==
    /\ phase = "running"
    /\ \E i \in DOMAIN pins : pins[i].name = <<"b">>
    /\ ev.call.op = "edit"

\* C7: while the last write of the pin collection has not failed, the item
\* stored under the pin-collection key is the serialization of the collection
\* in memory.
C7_StoredIsCurrent ==
    (phase = "running" /\ lastWrite[PINS] # "failed") =>
        storage[PINS] = JSONstringify(PINS, pins)

\* a pin was removed from a collection of two, and the store holds the one left
C7_Witness ==
    /\ phase = "running"
    /\ ev.call.op = "remove"
    /\ ~HasId(pins, ev.call.id)
    /\ lastWrite[PINS] = "ok"
    /\ Len(pins) = 1
    /\ storage[PINS] = JSONstringify(PINS, pins)

\* C8: a write that fails raises nothing, the state in memory is what the
\* handler produced, and so it stays for the events handled afterwards.
C8_WriteFailureAbsorbed ==
    /\ ~crashed
    /\ (phase = "running" /\ failures > 0) =>
          /\ pins = ev.mem.pins
          /\ mapCenter = ev.mem.center
          /\ mapZoom = ev.mem.zoom

\* after a write of the collection failed, a pin was added to the collection
\* in memory, and this time the write went through
C8_Witness ==
    /\ phase = "running"
    /\ failures > 0
    /\ ev.wr = {}
    /\ ev.call.op = "add"
    /\ Len(pins) = 2
    /\ mapZoom = SelectZoom
    /\ storage[PINS] = JSONstringify(PINS, pins)

\* C9: load(key, default) raises nothing, and returns the default when the key
\* is absent, when reading throws or when the stored text does not parse, and
\* the parsed stored value otherwise.
C9_LoadDefaultsOrParses ==
    [][ (phase = "boot" /\ phase' = "running") =>
          /\ ~crashed'
          /\ \A k \in STORAGE_KEYS :
               Loaded(ev'.mem, k) =
                  IF k \in ev'.rd \/ storage[k].kind \in {"null", "empty", "garbage"}
                  THEN DefaultValue(k)
                  ELSE JSONparse(k, storage[k]) ]_vars

\* reading the pin collection threw and gave the default, while the stored
\* center was read and parsed
C9_Witness ==
    /\ phase = "running"
    /\ ev.rd = {PINS}
    /\ pins = DefaultPins
    /\ mapCenter # DefaultCenter
    /\ mapZoom = SelectZoom

\* C10: loading the pin-collection key after a successful save of a
\* collection returns that collection: the same pins in the same order.
C10_RoundTrip ==
    (phase = "running" /\ lastWrite[PINS] = "ok") =>
        LET loaded == loadFromStorage(storage, PINS, DefaultPins, FALSE)
        IN  ~loaded.threw /\ loaded.value = pins

\* two pins were saved, one with a link and one without
C10_Witness ==
    /\ phase = "running"
    /\ lastWrite[PINS] = "ok"
    /\ Len(pins) = 2
    /\ pins[1].link = Undefined
    /\ pins[2].link # Undefined

\* the step in which the application starts
Starts == phase = "boot" /\ phase' = "running"

\* C11: at start the collection, the center and the zoom in memory are, each,
\* the value last written to its key with success, or the default (the empty
\* list, (40.7128, -74.0060), 10) when nothing was written to the key or the
\* key cannot be read.
C11_StartsFromLastSaved ==
    [][ Starts =>
          \A k \in STORAGE_KEYS :
              Loaded(Memory(pins', mapCenter', mapZoom'), k) =
                 IF k \notin ev'.rd /\ saved[k] # <<>> THEN saved[k][1]
                 ELSE DefaultValue(k) ]_vars

\* the application started with the two pins, one of them with a link, and the
\* center an earlier session saved, and with the default zoom because the
\* stored zoom could not be read
C11_Witness ==
    /\ phase = "running"
    /\ ev.rd = {MAP_ZOOM}
    /\ Len(pins) = 2
    /\ \E i \in DOMAIN pins : pins[i].link # Undefined
    /\ mapCenter # DefaultCenter
    /\ mapZoom = DefaultZoom

\* C12: at start, the value loaded for a key that is read without failure and
\* holds JSON is the parsed stored value, and every key whose write does not
\* fail then holds the value in memory, whatever happens to the other two
\* keys; in every step a key's stored item changes only by a successful write
\* of that key's own value.
C12_KeysIndependent ==
    [][ LET mem == Memory(pins', mapCenter', mapZoom')
        IN  /\ Starts =>
                  \A k \in STORAGE_KEYS :
                      /\ (k \notin ev'.rd /\ storage[k].kind = "json") =>
                             Loaded(mem, k) = JSONparse(k, storage[k])
                      /\ k \notin ev'.wr => storage'[k] = JSONstringify(k, Loaded(mem, k))
            /\ \A k \in STORAGE_KEYS :
                   storage'[k] # storage[k] =>
                      (k \notin ev'.wr /\ storage'[k] = JSONstringify(k, Loaded(mem, k))) ]_vars

\* the application started while the read of the center and the write of the
\* pins failed: the stored zoom was loaded, and the center and the zoom in
\* memory were written
C12_Witness ==
    /\ phase = "running"
    /\ ev.rd = {MAP_CENTER}
    /\ ev.wr = {PINS}
    /\ mapZoom = SelectZoom
    /\ mapCenter = DefaultCenter
    /\ storage[MAP_CENTER] = JSONstringify(MAP_CENTER, DefaultCenter)
    /\ storage[MAP_ZOOM] = JSONstringify(MAP_ZOOM, SelectZoom)
    /\ storage[PINS].kind = "json" /\ Len(storage[PINS].val) = 1

\* a numeric token: an optional minus sign, then digits with at most one
\* decimal point among or after them (the first character after the sign is a
\* digit: ".5" is no such token, "5." and "1.5" are)
IsNumericToken(tok) ==
    LET body == IF tok # <<>> /\ Head(tok) = "-" THEN Tail(tok) ELSE tok
    IN  /\ body # <<>>
        /\ IsDigit(body[1])
        /\ \A i \in DOMAIN body : IsDigit(body[i]) \/ body[i] = "."
        /\ Cardinality({i \in DOMAIN body : body[i] = "."}) <= 1

\* a comma with white space around it, or white space alone
IsPairSeparator(sep) ==
    /\ sep # <<>>
    /\ \A i \in DOMAIN sep : sep[i] \in {" ", ","}
    /\ Cardinality({i \in DOMAIN sep : sep[i] = ","}) <= 1

\* the ways to read a text as token, separator, token
PairReadings(text) ==
    LET c == Trim(text)
    IN  { r \in { <<SubSeq(c, 1, i), SubSeq(c, i + 1, j), SubSeq(c, j + 1, Len(c))>> :
                     i \in 0 .. Len(c), j \in 0 .. Len(c) } :
            IsNumericToken(r[1]) /\ IsPairSeparator(r[2]) /\ IsNumericToken(r[3]) }

\* C13: parseCoordinatePair returns the two tokens of the text if the trimmed
\* text is two numeric tokens separated by a comma or by white space, with the
\* first in [-90, 90] and the second in [-180, 180], bounds included; for
\* every other text it returns no match.
C13_PairIffTwoTokensInRange ==
    formEv.op = "paste" =>
        LET good == { r \in PairReadings(clipboard) :
                        /\ LatitudeOK(parseFloat(r[1]))
                        /\ LongitudeOK(parseFloat(r[3])) }
        IN  IF good = {} THEN formEv.parsed = Null
            ELSE /\ formEv.parsed # Null
                 /\ \A r \in good : formEv.parsed[1] = [lat |-> r[1], lon |-> r[3]]

\* " -90, 180" and the like was pasted: both bounds are accepted, and the
\* inputs hold the two tokens
C13_Witness ==
    /\ formEv.op = "paste"
    /\ clipboard # <<>> /\ Head(clipboard) = " "
    /\ formEv.parsed # Null
    /\ manualPinEntry.latitude = <<"-", "9", "0">>
    /\ manualPinEntry.longitude = <<"1", "8", "0">>

\* a text parses as a number: after leading white space it starts with a
\* decimal literal (optional sign, then a digit, or a point and a digit)
ParsesAsNumber(text) ==
    LET s == TrimStart(text)
        u == IF s # <<>> /\ Head(s) \in {"-", "+"} THEN Tail(s) ELSE s
    IN  /\ u # <<>>
        /\ \/ IsDigit(u[1])
           \/ u[1] = "." /\ Len(u) >= 2 /\ IsDigit(u[2])

\* what the validator is to report for the two fields
Verdict(latitude, longitude) ==
    IF ~ParsesAsNumber(latitude) \/ ~ParsesAsNumber(longitude) THEN "not-a-number"
    ELSE IF ~LatitudeOK(parseFloat(latitude)) THEN "latitude-out-of-range"
    ELSE IF ~LongitudeOK(parseFloat(longitude)) THEN "longitude-out-of-range"
    ELSE "ok"

\* the message of each report
MessageOf(verdict) ==
    CASE verdict = "not-a-number" -> ErrNumber
      [] verdict = "latitude-out-of-range" -> ErrLatitude
      [] verdict = "longitude-out-of-range" -> ErrLongitude
      [] OTHER -> NoError

\* the add button of the manual form is pressed
Submits == formEv'.op = "submit"

\* C14: the validator reports not-a-number when a field does not parse as a
\* number, else latitude-out-of-range, else longitude-out-of-range, else ok;
\* and a pin is constructed from the manual form only when it reported ok for
\* the fields used, with the numbers those fields parse to.
C14_ValidatorReportsAndGuards ==
    [][ Submits =>
          LET verdict == Verdict(manualPinEntry.latitude, manualPinEntry.longitude)
          IN  /\ manualPinEntry'.error = MessageOf(verdict)
              /\ pins' # pins =>
                    /\ verdict = "ok"
                    /\ ev'.call.op = "add"
                    /\ ev'.call.draft.position = <<parseFloat(manualPinEntry.latitude),
                                                  parseFloat(manualPinEntry.longitude)>>
              /\ verdict = "ok" => pins' # pins ]_vars

\* the form was submitted with latitude -90 and longitude -181: the report is
\* about the longitude, and no pin was constructed
C14_Witness ==
    /\ formEv.op = "submit"
    /\ manualPinEntry.latitude = <<"-", "9", "0">>
    /\ manualPinEntry.longitude = <<"-", "1", "8", "1">>
    /\ manualPinEntry.error = ErrLongitude
    /\ pins = <<>>

\* C15: when a submission of the manual form fails validation, an error is
\* set in that step, the pin collection and the stored pin collection are as
\* they were, and so are the fields of the form.
C15_FailedSubmitKeepsDraft ==
    [][ (Submits /\ (NameMissing(manualPinEntry)
                       \/ Verdict(manualPinEntry.latitude, manualPinEntry.longitude) # "ok")) =>
          /\ manualPinEntry'.error # NoError
          /\ pins' = pins
          /\ storage' = storage
          /\ manualPinEntry' = [manualPinEntry EXCEPT !.error = manualPinEntry'.error] ]_vars

\* with one pin in the collection, the form was submitted with a latitude
\* that is no number: the error is shown, the fields typed are still there
C15_Witness ==
    /\ formEv.op = "submit"
    /\ manualPinEntry.error = ErrNumber
    /\ manualPinEntry.latitude = <<"x">>
    /\ manualPinEntry.name = <<"a">>
    /\ manualPinEntry.description = <<"d", " ">>
    /\ Len(pins) = 1
    /\ storage[PINS] = JSONstringify(PINS, pins)

\* a step in which a suggestion request is sent
Sends == formEv'.op = "request" /\ Len(requests') = Len(requests) + 1

Settled == LocationFormShown /\ burst.since = DebounceTicks /\ timers = {}

\* a step in which the query of the form becomes another one
QueryChanges == locationManager'.searchQuery # locationManager.searchQuery

\* C17, as the claim has it: a suggestion request is sent for a query exactly
\* when the query has more than two characters and stays as it is for 300 ms;
\* a change to a query of two characters or less empties the suggestion list
\* and cancels the pending timer in the same step, and no request is sent for
\* such a query
C17_RequestIffLongAndSettled ==
    [][/\ Settled' /\ Len(locationManager'.searchQuery) > MinQueryLength
            => burst'.sent = 1
       /\ Sends => /\ Len(formEv'.query) > MinQueryLength
                   /\ formEv'.query = locationManager.searchQuery
                   /\ burst.since = DebounceTicks
       /\ QueryChanges /\ Len(locationManager'.searchQuery) <= MinQueryLength
            => /\ locationManager'.suggestions = <<>>
               /\ timers' = {}]_vars

\* C17, amended: a suggestion request is sent for a query exactly when the
\* query, trimmed of the white space around it, has more than two characters
\* and stays as it is for 300 ms; a change to a query of two characters or
\* less when trimmed empties the suggestion list and cancels the pending timer
\* in the same step, and no request is sent for such a query
C17_RequestIffTrimmedLongAndSettled ==
    [][/\ Settled' /\ Len(Trim(locationManager'.searchQuery)) > MinQueryLength
            => burst'.sent = 1
       /\ Sends => /\ Len(Trim(formEv'.query)) > MinQueryLength
                   /\ formEv'.query = locationManager.searchQuery
                   /\ burst.since = DebounceTicks
       /\ QueryChanges /\ Len(Trim(locationManager'.searchQuery)) <= MinQueryLength
            => /\ locationManager'.suggestions = <<>>
               /\ timers' = {}]_vars

\* a query of three characters, two when trimmed, has stayed for 300 ms:
\* nothing is sent, and the list is empty
C17_Witness ==
    /\ Settled
    /\ locationManager.searchQuery = <<"a", "b", " ">>
    /\ burst.sent = 0
    /\ locationManager.suggestions = <<>>
    /\ formEv.op = "tick"

\* a step in which the answer to a request fills the suggestion list
Fills == formEv'.op = "response" /\ formEv'.kind = "ok"

\* C18: at most one suggestion request is outstanding at any moment, so an
\* answer that arrives is the answer to the only outstanding request, and the
\* suggestion list is only ever filled from the request sent last: the answer
\* to an older query never replaces the results of a newer one
C18_OneRequestInFlight ==
    [][/\ Len(requests') <= 1
       /\ Fills => formEv'.others = 0 /\ formEv'.newest]_vars

\* the answer to an older request fills the list after the request sent last
\* was answered
C18_StaleAnswerShown ==
    /\ formEv.op = "response"
    /\ formEv.kind = "ok"
    /\ ~formEv.newest
    /\ requests = <<>>

\* a step in which a request to the geocoding service is answered, or fails
Answered == formEv'.op \in {"response", "lookup-response"}

\* C19: an answer of the geocoding service, to a suggestion request or to the
\* single-result search, leaves the pin collection and its stored copy as they
\* are; the collection grows, and its stored copy changes, only in the step in
\* which the user confirms a form
C19_AnswersLeavePinsAlone ==
    [][/\ Answered => pins' = pins /\ storage'[PINS] = storage[PINS]
       /\ pins' # pins \/ storage'[PINS] # storage[PINS]
            => /\ formEv'.op = "submit"
               /\ Len(pins') = Len(pins) + 1]_vars

\* the single-result search recenters the map while a pin added through the
\* form is in the collection and a suggestion request is outstanding
C19_Witness ==
    /\ formEv.op = "lookup-response"
    /\ formEv.answer.kind = "ok"
    /\ formEv.answer.results # <<>>
    /\ Len(pins) = 1
    /\ requests # <<>>

\* a step in which the request of the single-result search is answered, or fails
LookupEnds == formEv'.op = "lookup-response"

C21_FailuresShownNeverResent ==
    [][/\ formEv'.op = "lookup-response" /\ formEv'.answer.kind # "ok"
            => SearchError(searchComponent') # Null
       /\ formEv'.op = "response" /\ formEv'.kind # "ok"
            => LocationFormError(locationManager') # Null
       /\ lookup' # Null /\ lookup = Null => formEv'.op = "lookup"
       /\ Sends => burst.sent = 0]_vars

\* a suggestion request has failed and the form shows what it showed before
C21_SilentFailure ==
    /\ formEv.op = "response"
    /\ formEv.kind = "throws"
    /\ LocationFormError(locationManager) = Null
    /\ ~locationManager.isSearching

\* a step in which the location form adds a pin
LocationAdds == formEv'.op = "submit" /\ Len(pins') = Len(pins) + 1

\* C22: selecting a suggestion puts its coordinate and display name into the
\* draft of the form, and a pin added from the form has the coordinate of the
\* suggestion selected for the query text the form shows when it is added
C22_PinIsWhereTheShownQueryIs ==
    [][/\ formEv'.op = "select"
            => /\ locationManager'.selectedLocation # Null
               /\ locationManager'.selectedLocation[1].display_name = formEv'.query
               /\ locationManager'.searchQuery = formEv'.query
       /\ LocationAdds
            => LET selected == locationManager.selectedLocation[1]
               IN  /\ pins'[Len(pins')].position =
                        <<parseFloat(selected.lat), parseFloat(selected.lon)>>
                   /\ selected.display_name = locationManager.searchQuery]_vars

\* a step in which the page is left, to be loaded again
Restarts == phase = "running" /\ phase' = "boot" /\ ~crashed

\* C23: the stored viewport is the view the map showed last: after location
\* searches and after the user moved or zoomed the map, the center and zoom a
\* restart brings back (the ones last written, C11) are the ones the map
\* shows when the page is left, as long as the writes of the viewport succeeded
C23_StoredViewIsLastShown ==
    [][/\ Restarts /\ lastWrite[MAP_CENTER] = "ok" /\ lastWrite[MAP_ZOOM] = "ok"
            => /\ saved[MAP_CENTER] = <<mapView.center>>
               /\ saved[MAP_ZOOM] = <<mapView.zoom>>
       /\ Starts /\ ~crashed'
            => mapView' = View(mapCenter', mapZoom')]_vars

\* the user has moved the map away from the center last stored
C23_MovedAway ==
    /\ Running
    /\ lastWrite[MAP_CENTER] = "ok"
    /\ saved[MAP_CENTER] # <<mapView.center>>

\* C24: whenever the query of the location form, trimmed, has two characters
\* or less, the suggestion list is empty and the drop-down is hidden, also
\* after the answer to a request sent before the query was shortened or
\* cleared, or before the form was reset by adding a pin, has arrived
C24_ShortQueryShowsNothing ==
    LocationFormShown /\ Len(Trim(locationManager.searchQuery)) <= MinQueryLength
        => /\ locationManager.suggestions = <<>>
           /\ ~DropdownShown(locationManager)

\* an answer has filled the list and opened the drop-down under a cleared query
C24_LateAnswerShown ==
    /\ locationManager.searchQuery = <<>>
    /\ DropdownShown(locationManager)
    /\ formEv.op = "response"

\* a step in which the edit form is saved
SavesEdit == ev'.call.op = "edit" /\ editingPin # Null /\ editingPin' = Null

\* C25: saving the edit form leaves the id, the position and the place in the
\* list of the edited pin (the pin of the collection with the id the form holds)
\* as they were, and the other pins too; when the pin was removed, from the list
\* or from its popup, after the form was opened, the save brings no pin back and
\* leaves the collection as it is
C25_SaveKeepsIdPositionOrder ==
    [][SavesEdit =>
         /\ ev'.call.id = editingPin[1].id
         /\ Ids(pins') = Ids(pins)
         /\ \A i \in DOMAIN pins :
              /\ pins'[i].position = pins[i].position
              /\ pins[i].id # editingPin[1].id => pins'[i] = pins[i]
         /\ ~HasId(pins, editingPin[1].id) => pins' = pins]_vars

\* the same on the steps in which the pins with the id the form holds are where
\* the edited pin was: no other pin was given its id
C25_SaveWhenIdNotGivenAgain ==
    [][(SavesEdit /\ \A i \in DOMAIN pins :
                       pins[i].id = editingPin[1].id
                           => pins[i].position = editingPin[1].position) =>
         /\ ev'.call.id = editingPin[1].id
         /\ Ids(pins') = Ids(pins)
         /\ \A i \in DOMAIN pins :
              /\ pins'[i].position = pins[i].position
              /\ pins[i].id # editingPin[1].id => pins'[i] = pins[i]
         /\ ~HasId(pins, editingPin[1].id) => pins' = pins]_vars

\* the form is saved after its pin was removed
C25_SavedAfterRemoval ==
    /\ ev.call.op = "edit"
    /\ ~HasId(pins, ev.call.id)

\* the pin of the open edit form was removed, and a pin added since was given
\* its id
C25_IdGivenAgain ==
    /\ editingPin # Null
    /\ Len(pins) = 1
    /\ pins[1].id = editingPin[1].id
    /\ pins[1].position # editingPin[1].position

\* a step in which the delete button of a popup opens the dialog
DialogOpens == phase' = "running" /\ pinToDelete' # Null /\ pinToDelete' # pinToDelete

\* a step in which the dialog is closed by one of its handlers
DialogCloses == phase' = "running" /\ pinToDelete # Null /\ pinToDelete' = Null

\* the body of C26, for a step
PopupRemoval ==
    /\ DialogOpens => pins' = pins
    /\ DialogCloses =>
         IF ev'.call.op = "remove"
         THEN /\ ev'.call.id = pinToDelete[1]
              /\ ~crashed'
              /\ IF HasId(pins, pinToDelete[1])
                 THEN \E i \in DOMAIN pins :
                        /\ pins[i].id = pinToDelete[1]
                        /\ pins' = RemoveAt(pins, i)
                 ELSE pins' = pins
         ELSE pins' = pins
    /\ ev'.call.op = "remove" /\ pinToDelete' # pinToDelete => DialogCloses

\* C26: the popup removes a pin only by a click on its delete button followed
\* by a confirm in the dialog: the click leaves the collection as it is, a
\* cancel (the cancel button, a click on the overlay, Escape) leaves it as it
\* is and closes the dialog, and a confirm removes the pin that was clicked,
\* that pin alone, and closes the dialog
C26_PopupRemovesOnConfirmOnly == [][PopupRemoval]_vars

\* the same on the steps in which no id occurs twice
C26_PopupWhenIdsUnique == [][IdsStayUnique => PopupRemoval]_vars

\* a confirm has removed the clicked pin of two and closed the dialog
C26_ConfirmedOneOfTwo ==
    /\ ev.call.op = "remove"
    /\ pinToDelete = Null
    /\ Len(pins) = 1
    /\ ev.call.id # pins[1].id

=============================================================================
